---- MODULE Spec2Model ----
(***************************************************************************)
(* QueueTicket (src/src/main.rs): an axum service over one Postgres table  *)
(* `tickets`.  Staff routes sit behind the `auth` middleware (Basic        *)
(* credential compared in constant time, then an Origin/Referer check for  *)
(* POST/PUT/DELETE); guest routes are public.  Every handler runs as its   *)
(* own task, so the points where tasks interleave are the store queries:   *)
(* each action below is one handler from the arrival of the request up to  *)
(* and including one query (and everything that follows it, up to the next *)
(* query or the response).                                                 *)
(*                                                                         *)
(* Strings are sequences of bytes (ASCII codes), Option<T> is a sequence   *)
(* of length 0 (None) or 1 (Some).                                         *)
(***************************************************************************)
EXTENDS Integers, Sequences, FiniteSets, TLC

VARIABLES
    tickets,   \* the table `tickets`, rows in insertion order
    next_id,   \* the id the store gives the next inserted row (fresh UUID)
    pc,        \* pc[p]: where task p is: "idle", "create_insert", "guest_count"
    req,       \* req[p]: the request task p is handling (NoRequest when idle)
    locals,    \* locals[p]: the handler's local variables across an await
    resp       \* the response most recently sent to a client

vars == <<tickets, next_id, pc, req, locals, resp>>

----------------------------------------------------------------------------
(* Bounds of the model *)

\* concurrent handler tasks
NumProcs == 2
\* rows the runs of one behaviour insert in total
MaxIssues == 2
\* the stores of InitWrap hold MaxNumber - WrapMargin .. MaxNumber rows
WrapMargin == 1

Procs == 1..NumProcs

----------------------------------------------------------------------------
(* Option and byte strings *)

None == <<>>
Some(v) == <<v>>
IsSome(o) == Len(o) = 1
Unwrap(o) == o[1]

RECURSIVE BitXor(_, _)
BitXor(a, b) ==
    IF a = b THEN 0
    ELSE (((a % 2) + (b % 2)) % 2) + 2 * BitXor(a \div 2, b \div 2)

RECURSIVE BitOr(_, _)
BitOr(a, b) ==
    IF a = 0 THEN b
    ELSE IF b = 0 THEN a
    ELSE (IF (a % 2) = 1 \/ (b % 2) = 1 THEN 1 ELSE 0) + 2 * BitOr(a \div 2, b \div 2)

\* tmp |= a[i] ^ b[i] over all i, from index i on
RECURSIVE FoldDiff(_, _, _, _)
FoldDiff(a, b, i, tmp) ==
    IF i > Len(a) THEN tmp
    ELSE FoldDiff(a, b, i + 1, BitOr(tmp, BitXor(a[i], b[i])))

\* constant_time_eq(a, b): equal lengths and no differing bit in any byte
constant_time_eq(a, b) ==
    /\ Len(a) = Len(b)
    /\ FoldDiff(a, b, 1, 0) = 0

\* a comparison for equality in the place of str::starts_with: turns away
\* the base URL followed by a path
starts_with_exact(s, prefix) == s = prefix

\* str::starts_with
starts_with(s, prefix) ==
    /\ Len(prefix) <= Len(s)
    /\ \A i \in 1..Len(prefix) : s[i] = prefix[i]

\* HeaderValue::to_str().ok() on an optional header: Some only when the
\* header is there and every byte is visible ASCII (or a tab)
to_str_ok(h) ==
    IF IsSome(h) /\ \A i \in 1..Len(Unwrap(h)) :
                        Unwrap(h)[i] = 9 \/ (Unwrap(h)[i] >= 32 /\ Unwrap(h)[i] < 127)
    THEN h
    ELSE None

\* one character of the standard base64 alphabet, as its ASCII code
Base64Char(s) ==
    IF s < 26 THEN 65 + s
    ELSE IF s < 52 THEN 97 + (s - 26)
    ELSE IF s < 62 THEN 48 + (s - 52)
    ELSE IF s = 62 THEN 43
    ELSE 47

\* BASE64_STANDARD.encode
RECURSIVE Base64Encode(_)
Base64Encode(bytes) ==
    IF Len(bytes) = 0 THEN <<>>
    ELSE LET b1 == bytes[1]
             b2 == IF Len(bytes) >= 2 THEN bytes[2] ELSE 0
             b3 == IF Len(bytes) >= 3 THEN bytes[3] ELSE 0
             n  == (b1 * 65536) + (b2 * 256) + b3
             c1 == Base64Char(n \div 262144)
             c2 == Base64Char((n \div 4096) % 64)
             c3 == IF Len(bytes) >= 2 THEN Base64Char((n \div 64) % 64) ELSE 61
             c4 == IF Len(bytes) >= 3 THEN Base64Char(n % 64) ELSE 61
         IN  IF Len(bytes) <= 3 THEN <<c1, c2, c3, c4>>
             ELSE <<c1, c2, c3, c4>> \o Base64Encode(SubSeq(bytes, 4, Len(bytes)))

----------------------------------------------------------------------------
(* Configuration: AppState, built once in main *)

\* BASE_URL secret: "http://v"
base_url == <<104, 116, 116, 112, 58, 47, 47, 118>>

\* ADMIN_PASSWORD secret: "pw"
admin_password == <<112, 119>>

\* format!("admin:{}", admin_password)
credentials == <<97, 100, 109, 105, 110, 58>> \o admin_password

\* format!("Basic {}", BASE64_STANDARD.encode(credentials))
expected_auth_header == <<66, 97, 115, 105, 99, 32>> \o Base64Encode(credentials)

----------------------------------------------------------------------------
(* Requests *)

\* header values a client may send
AuthCorrect == Some(expected_auth_header)
\* the last character altered ("=" to "A")
AuthAlteredLast ==
    Some([expected_auth_header EXCEPT ![Len(expected_auth_header)] = 65])
\* the first character altered ("B" to "C")
AuthAlteredFirst == Some([expected_auth_header EXCEPT ![1] = 67])
\* the last character missing
AuthTruncated ==
    Some(SubSeq(expected_auth_header, 1, Len(expected_auth_header) - 1))

\* "http://v"
UrlSame == Some(base_url)
\* "http://v/a"
UrlWithPath == Some(base_url \o <<47, 97>>)
\* "http://e"
UrlEvil == Some(<<104, 116, 116, 112, 58, 47, 47, 101>>)
\* "http://": a proper prefix of the base URL
UrlShort == Some(SubSeq(base_url, 1, Len(base_url) - 1))
\* the base URL followed by the byte 0xC8, which is not visible ASCII
UrlNonAscii == Some(base_url \o <<200>>)
\* "http://e" followed by the byte 0xC8
UrlEvilNonAscii == Some(Unwrap(UrlEvil) \o <<200>>)

Headers(a, o, r) == [authorization |-> a, origin |-> o, referer |-> r]

\* every combination of the header values above
AuthorizationValues ==
    {None, AuthCorrect, AuthAlteredLast, AuthAlteredFirst, AuthTruncated}
OriginValues ==
    {None, UrlSame, UrlWithPath, UrlEvil, UrlShort, UrlNonAscii, UrlEvilNonAscii}
RefererValues == {None, UrlWithPath, UrlEvil}

AllHeaders ==
    { Headers(a, o, r) :
        a \in AuthorizationValues, o \in OriginValues, r \in RefererValues }

\* headers that pass both checks of auth
GoodHeaders == Headers(AuthCorrect, UrlSame, None)
\* headers that fail one check of auth each
BadHeaders ==
    { Headers(AuthCorrect, UrlEvil, None),
      Headers(AuthAlteredLast, UrlSame, None) }

NoHeaders == Headers(None, None, None)

\* form field group_size (i32)
GroupSizes == {1}
\* form field status (String)
StatusValues == {"waiting", "called", "completed"}

\* A request: method, matched path pattern, headers, and the values the
\* extractors of the handler parse: id (Path<Uuid> or the form's id),
\* group_size, status.  well_formed is FALSE when an extractor rejects it.
Request(m, path, h, id, gs, st, wf) ==
    [method |-> m, path |-> path, headers |-> h,
     id |-> id, group_size |-> gs, status |-> st, well_formed |-> wf]

NoRequest == Request("", "", NoHeaders, None, None, None, FALSE)

\* the ids clients know of: those of rows and one that no row has
KnownIds(base) == (base + 1)..(base + MaxIssues + 1)

RequestsOver(hs, ids, gss, sts) ==
    { Request("GET", "/", h, None, None, None, TRUE) : h \in {NoHeaders} }
    \cup { Request("GET", path, h, None, None, None, TRUE) :
             path \in {"/admin", "/admin/front", "/admin/call"}, h \in hs }
    \cup { Request("POST", "/admin/reset", h, None, None, None, TRUE) : h \in hs }
    \cup { Request("POST", "/admin/front/tickets", h, None, Some(gs), None, TRUE) :
             h \in hs, gs \in gss }
    \cup { Request("POST", "/admin/call/update", h, Some(id), None, Some(st), TRUE) :
             h \in hs, id \in ids, st \in sts }
    \cup { Request("GET", path, NoHeaders, Some(id), None, None, TRUE) :
             path \in {"/guest/{id}", "/guest/{id}/content"}, id \in ids }
    \* requests an extractor rejects
    \cup { Request("POST", path, Headers(AuthCorrect, UrlSame, None),
                   None, None, None, FALSE) :
             path \in {"/admin/front/tickets", "/admin/call/update"} }
    \cup { Request("GET", "/guest/{id}", NoHeaders, None, None, None, FALSE) }
    \* requests no route takes
    \cup { Request("GET", "/admin/reset", Headers(AuthCorrect, UrlSame, None),
                   None, None, None, TRUE),
           Request("POST", "/admin", Headers(AuthCorrect, UrlSame, None),
                   None, None, None, TRUE),
           Request("GET", "/nowhere", NoHeaders, None, None, None, TRUE) }

\* the requests of Spec: every form under good headers, one form under bad
Requests ==
    RequestsOver({GoodHeaders}, KnownIds(0), GroupSizes, StatusValues)
    \cup RequestsOver(BadHeaders, {1}, {1}, {"called"})

\* the requests of SpecGuard: every combination of headers on the staff
\* routes, and methods that no route takes
GuardRequests ==
    RequestsOver(AllHeaders, {1}, {1}, {"called"})
    \cup { Request(m, path, h, None, None, None, TRUE) :
             m \in {"PUT", "DELETE"}, path \in {"/admin/reset"},
             h \in {GoodHeaders, Headers(AuthCorrect, UrlEvil, None)} }

----------------------------------------------------------------------------
(* Routing: main *)

PublicRoutes ==
    { <<"GET", "/">>, <<"GET", "/guest/{id}">>, <<"GET", "/guest/{id}/content">> }

AdminRoutes ==
    { <<"GET", "/admin">>, <<"POST", "/admin/reset">>, <<"GET", "/admin/front">>,
      <<"POST", "/admin/front/tickets">>, <<"GET", "/admin/call">>,
      <<"POST", "/admin/call/update">> }

PublicPaths == { route[2] : route \in PublicRoutes }
AdminPaths == { route[2] : route \in AdminRoutes }

Routed(r, m, path) == r.method = m /\ r.path = path

----------------------------------------------------------------------------
(* Responses *)

\* what a response records of the request it answers: the request line and
\* the headers, which is all that auth reads
RequestLine(r) == [method |-> r.method, path |-> r.path, headers |-> r.headers]

\* status 0 stands for a handler that panicked: the task is dropped and the
\* client gets no response
Response(r, status, www_authenticate, body, list, wc) ==
    [req |-> RequestLine(r), status |-> status,
     www_authenticate |-> www_authenticate, body |-> body,
     tickets |-> list, waiting_count |-> wc]

NoResponse == Response(NoRequest, 0, None, "", <<>>, None)

----------------------------------------------------------------------------
(* The access guard: auth *)

\* a comparison that stops at the end of the shorter value: a header cut
\* short passes it
credential_check_no_length(auth_header) ==
    /\ IsSome(auth_header)
    /\ \A i \in 1..Len(Unwrap(auth_header)) :
          /\ i <= Len(expected_auth_header)
          /\ Unwrap(auth_header)[i] = expected_auth_header[i]

\* let is_authorized = match auth_header { Some(auth) => constant_time_eq(..),
\*                                          None => false }
credential_check(auth_header) ==
    IF IsSome(auth_header)
    THEN constant_time_eq(Unwrap(auth_header), expected_auth_header)
    ELSE FALSE

\* Origin, or Referer when Origin is not there (or is not a string)
origin_of(origin_header, referer_header) ==
    IF IsSome(to_str_ok(origin_header))
    THEN to_str_ok(origin_header)
    ELSE to_str_ok(referer_header)

\* let is_valid_origin = match origin { Some(o) => o.starts_with(&base_url),
\*                                      None => false }
origin_check(origin_header, referer_header) ==
    LET origin == origin_of(origin_header, referer_header)
    IN  IF IsSome(origin) THEN starts_with(Unwrap(origin), base_url) ELSE FALSE

\* the two checks, worked out once for every header value of the model
CredentialTable == [a \in AuthorizationValues |-> credential_check(a)]
OriginTable == [o \in OriginValues, f \in RefererValues |-> origin_check(o, f)]

is_authorized(r) == CredentialTable[r.headers.authorization]
is_valid_origin(r) == OriginTable[r.headers.origin, r.headers.referer]

\* the two checks in the other order
auth_origin_first(r) ==
    IF r.method \in {"POST", "PUT", "DELETE"} /\ ~is_valid_origin(r) THEN 403
    ELSE IF ~is_authorized(r) THEN 401
    ELSE 0

\* the status auth answers with, or 0 when it calls next.run(req)
auth(r) ==
    IF ~is_authorized(r) THEN 401
    ELSE IF r.method \in {"POST", "PUT", "DELETE"} /\ ~is_valid_origin(r) THEN 403
    ELSE 0

auth_body(status) ==
    IF status = 401 THEN "Unauthorized: Access Denied"
    ELSE "Forbidden: CSRF Check Failed (Invalid Origin)"

\* the WWW-Authenticate header of auth's answer
auth_challenge(status) ==
    IF status = 401 THEN Some("Basic realm=\"Admin Area\"") ELSE None

----------------------------------------------------------------------------
(* The ticket store: the queries of the handlers over the table *)

\* the largest number create_ticket hands out
MaxNumber == 999

Ticket(id, number, group_size, status) ==
    [id |-> id, number |-> number, group_size |-> group_size, status |-> status]

\* what the table's own definition demands of a new row: a fresh id, and
\* nothing of number, group_size or status
TableAccepts(rows, row) ==
    \A i \in 1..Len(rows) : rows[i].id # row.id

RECURSIVE MaxBetween(_, _, _)
MaxBetween(rows, lo, hi) ==
    IF lo = hi THEN rows[lo].number
    ELSE LET mid == (lo + hi) \div 2
             l == MaxBetween(rows, lo, mid)
             h == MaxBetween(rows, mid + 1, hi)
         IN  IF l >= h THEN l ELSE h

\* SELECT COALESCE(MAX(number), 0) + 1 FROM tickets
SelectNextNumber(rows) ==
    (IF Len(rows) = 0 THEN 0 ELSE MaxBetween(rows, 1, Len(rows))) + 1

\* a wrap that comes one number late
WrapNumber_late(next_number) ==
    IF next_number > MaxNumber + 1 THEN 1 ELSE next_number

\* numbering that runs on past 999
WrapNumber_none(next_number) == next_number

\* let number = if next_number > 999 { 1 } else { next_number }
WrapNumber(next_number) ==
    IF next_number > MaxNumber THEN 1 ELSE next_number

\* an INSERT that skips a number a ticket not yet completed holds
InsertTicket_unless_taken(rows, id, number, group_size) ==
    IF \E i \in 1..Len(rows) :
          rows[i].number = number /\ rows[i].status # "completed"
    THEN rows
    ELSE Append(rows, Ticket(id, number, group_size, "waiting"))

\* INSERT INTO tickets (number, group_size, status) VALUES ($1, $2, 'waiting')
InsertTicket(rows, id, number, group_size) ==
    Append(rows, Ticket(id, number, group_size, "waiting"))

\* SELECT ... WHERE status != 'completed' ORDER BY number ASC.  SQL leaves the
\* order of rows with equal numbers open: oldest_first picks one of two.
SelectActive(rows, oldest_first) ==
    SortSeq(SelectSeq(rows, LAMBDA t : t.status # "completed"),
            LAMBDA a, b : \/ a.number < b.number
                          \/ /\ a.number = b.number
                             /\ IF oldest_first THEN a.id < b.id ELSE a.id > b.id)

\* an UPDATE without its WHERE clause
UpdateTicketStatus_all(rows, id, status) ==
    [i \in 1..Len(rows) |-> [rows[i] EXCEPT !.status = status]]

\* UPDATE tickets SET status = $1 WHERE id = $2
UpdateTicketStatus(rows, id, status) ==
    [i \in 1..Len(rows) |->
        IF rows[i].id = id THEN [rows[i] EXCEPT !.status = status] ELSE rows[i]]

\* SELECT ... FROM tickets WHERE id = $1 (fetch_one: a row, or none)
SelectTicket(rows, id) ==
    IF \E i \in 1..Len(rows) : rows[i].id = id
    THEN Some(rows[CHOOSE i \in 1..Len(rows) : rows[i].id = id])
    ELSE None

\* SELECT COUNT(*) FROM tickets WHERE status = 'waiting' AND number < $1
CountWaitingBefore(rows, number) ==
    Cardinality({ i \in 1..Len(rows) :
                    rows[i].status = "waiting" /\ rows[i].number < number })

----------------------------------------------------------------------------
(* Handlers.  ok is whether the store answers the query of the step: a     *)
(* query fails when the pool or the connection does.                       *)

NoLocals == [number |-> 0, ticket |-> None]

\* a task ends: its response goes out and its frame is dropped
Finish(p, response) ==
    /\ resp' = response
    /\ pc' = [pc EXCEPT ![p] = "idle"]
    /\ req' = [req EXCEPT ![p] = NoRequest]
    /\ locals' = [locals EXCEPT ![p] = NoLocals]

Panic(p, r, message) ==
    Finish(p, Response(r, 0, None, message, <<>>, None))

\* creates in flight: tasks between the SELECT and the INSERT
InFlightCreates == Cardinality({ p \in Procs : pc[p] = "create_insert" })

\* auth answers itself (route_layer puts it in front of every method of a
\* staff path): the handler is not run
AuthReject(p, r) ==
    /\ pc[p] = "idle"
    /\ r.path \in AdminPaths
    /\ LET status == auth(r)
       IN  /\ status # 0
           /\ Finish(p, Response(r, status, auth_challenge(status),
                                 auth_body(status), <<>>, None))
    /\ UNCHANGED <<tickets, next_id>>

\* the router answers: no such path (404), or no such method on the path
\* (405; on a staff path, once auth has let the request through)
RouterReject(p, r) ==
    /\ pc[p] = "idle"
    /\ <<r.method, r.path>> \notin PublicRoutes \cup AdminRoutes
    /\ r.path \in AdminPaths => auth(r) = 0
    /\ Finish(p, Response(r,
                 IF r.path \in AdminPaths \cup PublicPaths THEN 405 ELSE 404,
                 None, "", <<>>, None))
    /\ UNCHANGED <<tickets, next_id>>

\* routes added after route_layer: no request to them passes through auth
Reaches_unguarded(p, r, m, path) ==
    /\ pc[p] = "idle"
    /\ Routed(r, m, path)

\* a request that gets to the handler of the route <<m, path>>
Reaches(p, r, m, path) ==
    /\ pc[p] = "idle"
    /\ Routed(r, m, path)
    /\ path \in AdminPaths => auth(r) = 0

\* Form<..> or Path<Uuid> rejects the request before the handler's body
ExtractorReject(p, r) ==
    /\ ~r.well_formed
    /\ \E route \in PublicRoutes \cup AdminRoutes : Reaches(p, r, route[1], route[2])
    /\ Finish(p, Response(r, IF r.method = "POST" THEN 422 ELSE 400,
                          None, "", <<>>, None))
    /\ UNCHANGED <<tickets, next_id>>

root_redirect(p, r) ==
    /\ Reaches(p, r, "GET", "/")
    /\ Finish(p, Response(r, 303, None, "/admin", <<>>, None))
    /\ UNCHANGED <<tickets, next_id>>

admin_index(p, r) ==
    /\ Reaches(p, r, "GET", "/admin")
    /\ Finish(p, Response(r, 200, None, "admin_index.html", <<>>, None))
    /\ UNCHANGED <<tickets, next_id>>

front_page(p, r) ==
    /\ Reaches(p, r, "GET", "/admin/front")
    /\ Finish(p, Response(r, 200, None, "front.html", <<>>, None))
    /\ UNCHANGED <<tickets, next_id>>

\* a reset that keeps the tickets not yet completed
reset_db_keep_active(p, r, ok) ==
    /\ Reaches(p, r, "POST", "/admin/reset")
    /\ IF ok
       THEN /\ tickets' = SelectSeq(tickets, LAMBDA t : t.status # "completed")
            /\ Finish(p, Response(r, 303, None, "/admin", <<>>, None))
       ELSE /\ UNCHANGED tickets
            /\ Panic(p, r, "Failed to reset table")
    /\ UNCHANGED next_id

\* TRUNCATE TABLE tickets, then Redirect::to("/admin")
reset_db(p, r, ok) ==
    /\ Reaches(p, r, "POST", "/admin/reset")
    /\ IF ok
       THEN /\ tickets' = <<>>
            /\ Finish(p, Response(r, 303, None, "/admin", <<>>, None))
       ELSE /\ UNCHANGED tickets
            /\ Panic(p, r, "Failed to reset table")
    /\ UNCHANGED next_id

\* create_ticket up to the await of the SELECT
create_ticket(p, r, ok) ==
    /\ Reaches(p, r, "POST", "/admin/front/tickets")
    /\ r.well_formed
    /\ next_id + InFlightCreates <= MaxIssues
    /\ LET next_number == IF ok THEN SelectNextNumber(tickets) ELSE 1
       IN  locals' = [locals EXCEPT ![p] =
                         [number |-> WrapNumber(next_number), ticket |-> None]]
    /\ pc' = [pc EXCEPT ![p] = "create_insert"]
    /\ req' = [req EXCEPT ![p] = r]
    /\ UNCHANGED <<tickets, next_id, resp>>

\* create_ticket from the INSERT to the response
create_ticket_insert(p, ok) ==
    /\ pc[p] = "create_insert"
    /\ LET row == Ticket(next_id, locals[p].number,
                         Unwrap(req[p].group_size), "waiting")
       IN  IF ok /\ TableAccepts(tickets, row)
           THEN /\ tickets' = InsertTicket(tickets, next_id, locals[p].number,
                                           Unwrap(req[p].group_size))
                /\ next_id' = next_id + 1
                /\ Finish(p, Response(req[p], 200, None, "front.html",
                                      <<row>>, None))
           ELSE /\ UNCHANGED <<tickets, next_id>>
                /\ Panic(p, req[p], "Failed to create ticket")

call_page(p, r, ok, oldest_first) ==
    /\ Reaches(p, r, "GET", "/admin/call")
    /\ LET list == IF ok THEN SelectActive(tickets, oldest_first) ELSE <<>>
       IN  Finish(p, Response(r, 200, None, "call.html", list, None))
    /\ UNCHANGED <<tickets, next_id>>

update_status(p, r, ok) ==
    /\ Reaches(p, r, "POST", "/admin/call/update")
    /\ r.well_formed
    /\ IF ok
       THEN /\ tickets' = UpdateTicketStatus(tickets, Unwrap(r.id), Unwrap(r.status))
            /\ Finish(p, Response(r, 303, None, "/admin/call", <<>>, None))
       ELSE /\ UNCHANGED tickets
            /\ Panic(p, r, "Failed to update status")
    /\ UNCHANGED next_id

\* guest_page and guest_content up to the await of the first SELECT
guest_page(p, r, ok) ==
    /\ \/ Reaches(p, r, "GET", "/guest/{id}")
       \/ Reaches(p, r, "GET", "/guest/{id}/content")
    /\ r.well_formed
    /\ LET ticket == IF ok THEN SelectTicket(tickets, Unwrap(r.id)) ELSE None
       IN  IF IsSome(ticket)
           THEN /\ locals' = [locals EXCEPT ![p] =
                                 [number |-> 0, ticket |-> ticket]]
                /\ pc' = [pc EXCEPT ![p] = "guest_count"]
                /\ req' = [req EXCEPT ![p] = r]
                /\ UNCHANGED resp
           ELSE Panic(p, r, "Ticket not found")
    /\ UNCHANGED <<tickets, next_id>>

\* guest_page and guest_content from the COUNT to the response
guest_page_count(p, ok) ==
    /\ pc[p] = "guest_count"
    /\ LET ticket == Unwrap(locals[p].ticket)
           waiting_count == IF ok THEN CountWaitingBefore(tickets, ticket.number)
                            ELSE 0
       IN  Finish(p, Response(req[p], 200, None,
                              IF req[p].path = "/guest/{id}" THEN "guest.html"
                              ELSE "guest_content.html",
                              <<ticket>>, Some(waiting_count)))
    /\ UNCHANGED <<tickets, next_id>>

----------------------------------------------------------------------------
(* The system *)

Init ==
    /\ tickets = <<>>
    /\ next_id = 1
    /\ pc = [p \in Procs |-> "idle"]
    /\ req = [p \in Procs |-> NoRequest]
    /\ locals = [p \in Procs |-> NoLocals]
    /\ resp = NoResponse

NextOver(P, R, OKs) ==
    \E p \in P :
        \/ \E r \in R :
              \/ AuthReject(p, r)
              \/ RouterReject(p, r)
              \/ ExtractorReject(p, r)
              \/ root_redirect(p, r)
              \/ admin_index(p, r)
              \/ front_page(p, r)
              \/ \E ok \in OKs :
                    \/ reset_db(p, r, ok)
                    \/ create_ticket(p, r, ok)
                    \/ update_status(p, r, ok)
                    \/ guest_page(p, r, ok)
                    \/ \E oldest_first \in BOOLEAN : call_page(p, r, ok, oldest_first)
        \/ \E ok \in OKs :
              \/ create_ticket_insert(p, ok)
              \/ guest_page_count(p, ok)

Next == NextOver(Procs, Requests, BOOLEAN)

Spec == Init /\ [][Next]_vars

\* the store that answers every query
SpecReliable == Init /\ [][NextOver(Procs, Requests, {TRUE})]_vars

\* issuance one after another: no create_ticket starts while another is in
\* flight, and no reset falls between the SELECT and the INSERT of one
OneAfterAnother ==
    /\ Cardinality({ p \in Procs : pc'[p] = "create_insert" }) <= 1
    /\ (InFlightCreates > 0 /\ Len(tickets) > 0) => Len(tickets') > 0

SpecSeq == Init /\ [][Next /\ OneAfterAnother]_vars

----------------------------------------------------------------------------
(* The store near the largest number *)

\* the table after n issues one after another, all rows since set to status
InitialTable(n, status) ==
    [i \in 1..n |-> Ticket(MaxIssues + 1 + i, i, 1, status)]

WrapRequests ==
    RequestsOver({GoodHeaders}, {1}, {1}, {"called"})

InitWrap ==
    /\ \E n \in (MaxNumber - WrapMargin)..MaxNumber :
       \E status \in {"waiting", "completed"} :
          tickets = InitialTable(n, status)
    /\ next_id = 1
    /\ pc = [p \in Procs |-> "idle"]
    /\ req = [p \in Procs |-> NoRequest]
    /\ locals = [p \in Procs |-> NoLocals]
    /\ resp = NoResponse

\* the staff issue tickets and reset
NextWrap ==
    \E p \in Procs : \E ok \in BOOLEAN :
        \/ \E r \in WrapRequests :
              \/ reset_db(p, r, ok)
              \/ create_ticket(p, r, ok)
        \/ create_ticket_insert(p, ok)

SpecWrap == InitWrap /\ [][NextWrap]_vars

\* the ids of the oldest row of the table and of the first row to come
LifeIds == {1, MaxIssues + 2}

LifeRequests ==
    RequestsOver({GoodHeaders}, LifeIds, {1}, {"called"})

\* the staff issue tickets, set their status and reset
NextLife ==
    \E p \in Procs : \E ok \in BOOLEAN :
        \/ \E r \in LifeRequests :
              \/ reset_db(p, r, ok)
              \/ create_ticket(p, r, ok)
              \/ update_status(p, r, ok)
        \/ create_ticket_insert(p, ok)

SpecLife == InitWrap /\ [][NextLife]_vars

----------------------------------------------------------------------------
(* The access guard under every combination of headers *)

\* the store after one issue
InitGuard ==
    /\ tickets = <<Ticket(1, 1, 1, "waiting")>>
    /\ next_id = 2
    /\ pc = [p \in Procs |-> "idle"]
    /\ req = [p \in Procs |-> NoRequest]
    /\ locals = [p \in Procs |-> NoLocals]
    /\ resp = NoResponse

\* requests to the staff routes whose handlers run one query at most
NextGuard ==
    \E p \in Procs : \E r \in GuardRequests :
        \/ RouterReject(p, r)
        \/ AuthReject(p, r)
        \/ admin_index(p, r)
        \/ front_page(p, r)
        \/ \E ok \in BOOLEAN :
              \/ reset_db(p, r, ok)
              \/ update_status(p, r, ok)
              \/ \E oldest_first \in BOOLEAN : call_page(p, r, ok, oldest_first)

SpecGuard == InitGuard /\ [][NextGuard]_vars

----------------------------------------------------------------------------
(* The forms with every kind of value *)

\* group_size: i32 takes zero and negative values as well
InputGroupSizes == {-1, 0, 1}
\* status: String takes any text
InputStatusValues == StatusValues \cup {"bogus"}

InputRequests ==
    RequestsOver({GoodHeaders}, KnownIds(0), InputGroupSizes, InputStatusValues)

\* the staff issue tickets, set their status and reset
NextInput ==
    \E p \in Procs : \E ok \in BOOLEAN :
        \/ \E r \in InputRequests :
              \/ ExtractorReject(p, r)
              \/ reset_db(p, r, ok)
              \/ create_ticket(p, r, ok)
              \/ update_status(p, r, ok)
        \/ create_ticket_insert(p, ok)

SpecInput == Init /\ [][NextInput]_vars

----------------------------------------------------------------------------
(* What the claims speak of, stated apart from the operators of the model *)

\* a header value that is text: visible ASCII or a tab
IsText(v) == \A i \in 1..Len(v) : v[i] = 9 \/ v[i] \in 32..126

HasPrefix(v, prefix) ==
    Len(v) >= Len(prefix) /\ SubSeq(v, 1, Len(prefix)) = prefix

\* the Authorization header is there and is the expected value, byte for byte
PresentedCredentialOK(h) == h.authorization = <<expected_auth_header>>

\* the origin value the check goes by: Origin, else Referer
ChosenOriginValue(h) ==
    IF h.origin # <<>> /\ IsText(h.origin[1]) THEN h.origin
    ELSE IF h.referer # <<>> /\ IsText(h.referer[1]) THEN h.referer
    ELSE <<>>

OriginAccepted(h) ==
    /\ ChosenOriginValue(h) # <<>>
    /\ HasPrefix(ChosenOriginValue(h)[1], base_url)

\* the request line q passes the credential check and, being a POST, PUT or
\* DELETE, the origin check
PassesGuard(q) ==
    /\ PresentedCredentialOK(q.headers)
    /\ q.method \in {"POST", "PUT", "DELETE"} => OriginAccepted(q.headers)

\* resp is auth's own answer
IsGuardAnswer(response) ==
    /\ response.status \in {401, 403}
    /\ response.tickets = <<>>
    /\ response.waiting_count = <<>>

RECURSIVE CountWaitingUpTo(_, _, _)
CountWaitingUpTo(rows, k, number) ==
    IF k = 0 THEN 0
    ELSE CountWaitingUpTo(rows, k - 1, number)
         + (IF rows[k].status = "waiting" /\ rows[k].number < number THEN 1 ELSE 0)

HasId(rows, id) == \E i \in 1..Len(rows) : rows[i].id = id

\* task p runs the SELECT of create_ticket in this step
ReadsNextNumber(p) == pc[p] = "idle" /\ pc'[p] = "create_insert"

\* task p inserts its row in this step
InsertsRow(p) ==
    /\ pc[p] = "create_insert"
    /\ pc'[p] = "idle"
    /\ Len(tickets') = Len(tickets) + 1

----------------------------------------------------------------------------
(* Claims *)

\* C1: two concurrent issue operations never receive the same number: on a
\* store whose largest number is below 998 and that answers every query, no
\* two rows of the table carry the same number, however the SELECTs and the
\* INSERTs of the issues interleave.
C1_ConcurrentIssuesDistinct ==
    \A i, j \in 1..Len(tickets) :
        i # j => tickets[i].number # tickets[j].number

\* C2: the store is modified by a staff request only if the request passed
\* the credential check and, being a POST, the origin check: a step that
\* changes the table answers a POST to a staff path that passes both, a task
\* past the guard on a staff path holds such a request, and a request to a
\* staff path that fails a check gets auth's own answer and no handler's.
C2_GuardedStore ==
    [][ /\ tickets' # tickets =>
              /\ resp'.req.path \in AdminPaths
              /\ resp'.req.method = "POST"
              /\ PassesGuard(resp'.req)
        /\ \A p \in Procs :
              (pc'[p] # "idle" /\ req'[p].path \in AdminPaths)
                  => PassesGuard(RequestLine(req'[p]))
        /\ (resp'.req.path \in AdminPaths /\ ~PassesGuard(resp'.req))
              => IsGuardAnswer(resp')
      ]_vars

\* a POST to reset was turned away with 403 and the rows are still there
C2_Witness ==
    /\ resp.status = 403
    /\ resp.req.path = "/admin/reset"
    /\ Len(tickets) > 0

\* C3: from an empty store, issuing tickets one after another (no two issues
\* overlap, status changes in between) numbers them 1, 2, ..., N in order:
\* the i-th row of the table has number i.
C3_SequentialNumbers ==
    \A i \in 1..Len(tickets) : tickets[i].number = i

\* C4: when the largest number in the store is 999, the next issue assigns
\* number 1 to the new ticket: the SELECT of an issue that finds 999 as the
\* largest number leaves 1 as the number, and the row the issue inserts
\* carries the number its SELECT left.
C4_WrapToOne ==
    [][ \A p \in Procs :
          /\ (ReadsNextNumber(p)
                /\ (\E i \in 1..Len(tickets) : tickets[i].number = 999)
                /\ (\A i \in 1..Len(tickets) : tickets[i].number <= 999))
                => locals'[p].number = 1
          /\ InsertsRow(p)
                => /\ tickets'[Len(tickets')].number = locals[p].number
                   /\ tickets'[Len(tickets')].status = "waiting"
      ]_vars

\* a row numbered 1 was inserted into a table that holds number 999
C4_Witness ==
    /\ Len(tickets) >= 999
    /\ tickets[Len(tickets)].number = 1
    /\ \E i \in 1..Len(tickets) : tickets[i].number = 999
    /\ resp.status = 200

\* C5: for every ticket t, viewFor(t.id) returns waiting_count equal to the
\* number of tickets whose status is waiting and whose number is strictly
\* less than t.number: a guest page that was answered shows that count of
\* the table as it is.
C5_WaitingCount ==
    (resp.status = 200 /\ resp.body \in {"guest.html", "guest_content.html"})
        => resp.waiting_count =
              <<CountWaitingUpTo(tickets, Len(tickets), resp.tickets[1].number)>>

\* C6: activeList returns exactly the tickets whose status is not completed,
\* in ascending order of number (so a ticket set to called is still in the
\* list, one set to completed is not): a call page that was answered lists
\* exactly those rows of the table as it is.
C6_ActiveList ==
    (resp.status = 200 /\ resp.body = "call.html")
        => /\ \A k \in 1..(Len(resp.tickets) - 1) :
                 resp.tickets[k].number <= resp.tickets[k + 1].number
           /\ { resp.tickets[k] : k \in 1..Len(resp.tickets) }
                 = { tickets[i] : i \in { j \in 1..Len(tickets) :
                                            tickets[j].status # "completed" } }
           /\ Len(resp.tickets)
                 = Cardinality({ j \in 1..Len(tickets) :
                                   tickets[j].status # "completed" })

\* C7: viewFor(id) and setStatus(id, s) with an id that no row has both end
\* in a NotFound outcome (404: no panic, no success) and leave the store as
\* it is, also when the store answers the query.
C7_NotFound ==
    [][ \A p \in Procs : \A r \in Requests :
          (r.well_formed /\ r.id # <<>> /\ ~HasId(tickets, r.id[1]))
              => /\ guest_page(p, r, TRUE)
                    => (resp'.status = 404 /\ tickets' = tickets)
                 /\ update_status(p, r, TRUE)
                    => (resp'.status = 404 /\ tickets' = tickets)
      ]_vars

\* C8: after reset, from any reachable state (also one with a ticket
\* numbered 999), activeList is empty and the next issue assigns number 1:
\* once reset has answered, the table holds no row, so none that is not
\* completed, and an issue whose SELECT runs on the table that reset left
\* gets number 1.
C8_Reset ==
    [][ /\ (resp'.req.path = "/admin/reset" /\ resp'.status = 303)
              => /\ tickets' = <<>>
                 /\ \A i \in 1..Len(tickets') : tickets'[i].status = "completed"
        /\ \A p \in Procs :
              (ReadsNextNumber(p) /\ tickets = <<>>) => locals'[p].number = 1
      ]_vars

\* the table of 998 rows or more was reset and the issue after it got 1
C8_Witness ==
    /\ Len(tickets) = 1
    /\ tickets[1].number = 1
    /\ resp.status = 200
    /\ resp.body = "front.html"

\* C9: the origin check applies to POST, PUT and DELETE only and accepts
\* such a request exactly when the chosen origin value starts with the base
\* URL: auth answers 403 exactly to the requests with the right credential,
\* one of these methods, and no chosen origin value that starts with the
\* base URL (so never to a GET, whatever its headers).
C9_OriginCheck ==
    resp.req.path \in AdminPaths
        => /\ resp.status = 403
                 <=> /\ PresentedCredentialOK(resp.req.headers)
                     /\ resp.req.method \in {"POST", "PUT", "DELETE"}
                     /\ ~OriginAccepted(resp.req.headers)
           /\ resp.status = 403
                 => resp.body = "Forbidden: CSRF Check Failed (Invalid Origin)"

\* a POST with the right credential and the Origin of another site got 403
C9_Witness ==
    /\ resp.status = 403
    /\ resp.req.method = "POST"
    /\ resp.req.headers.authorization = AuthCorrect
    /\ resp.req.headers.origin = UrlEvil

\* C10: the credential check passes exactly when the Authorization header
\* equals the expected value byte for byte; a request without the header
\* fails as one with a wrong header does: 401 with the WWW-Authenticate
\* challenge.
C10_CredentialCheck ==
    resp.req.path \in AdminPaths
        => /\ resp.status = 401 <=> ~PresentedCredentialOK(resp.req.headers)
           /\ resp.status = 401
                 => /\ resp.www_authenticate = <<"Basic realm=\"Admin Area\"">>
                    /\ resp.body = "Unauthorized: Access Denied"

\* a header with one character altered got 401
C10_Witness ==
    /\ resp.status = 401
    /\ resp.req.headers.authorization = AuthAlteredLast
    /\ resp.www_authenticate # <<>>

\* C11: setStatus(id, s) with s outside {waiting, called, completed} fails
\* with InvalidInput and leaves the status as it was; so every ticket in the
\* store has, at all times, a status in {waiting, called, completed}.
C11_StatusRecognized ==
    \A i \in 1..Len(tickets) :
        tickets[i].status \in {"waiting", "called", "completed"}

\* C12: issue with a group_size that is zero or negative fails and inserts
\* no ticket; so every ticket in the store has, at all times, a group_size
\* of 1 or more.
C12_GroupSizePositive ==
    \A i \in 1..Len(tickets) : tickets[i].group_size >= 1

\* C13: issue fails whenever a store operation it performs fails, the read
\* of the next number included: when that read fails the caller gets an
\* error as the answer and the issue ends there, with no ticket inserted.
C13_ReadFailureFails ==
    [][ \A p \in Procs : \A r \in InputRequests :
          create_ticket(p, r, FALSE)
              => /\ pc'[p] = "idle"
                 /\ resp'.req = RequestLine(r)
                 /\ resp'.status \notin {200, 303}
                 /\ tickets' = tickets
      ]_vars

\* C14: in every reachable state, under any sequence and interleaving of
\* issue, setStatus and reset, every ticket in the store has a number in
\* the range 1..999.
C14_NumberInRange ==
    \A i \in 1..Len(tickets) :
        tickets[i].number >= 1 /\ tickets[i].number <= 999

\* issues have handed out 999 and, after it, 1, and a status has been set
C14_Witness ==
    /\ \E i \in 1..Len(tickets) :
          tickets[i].id <= MaxIssues /\ tickets[i].number = 999
    /\ \E i \in 1..Len(tickets) :
          tickets[i].id <= MaxIssues /\ tickets[i].number = 1
    /\ \E i \in 1..Len(tickets) : tickets[i].status = "called"

\* C15: a ticket's number, id and group_size never change after creation:
\* setStatus(id, s) changes only the status field of the ticket with that
\* id and leaves every other field of that ticket and every other ticket as
\* it was, and issue leaves all existing tickets as they were.
C15_Frame ==
    [][ /\ \A p \in Procs : \A r \in InputRequests :
              update_status(p, r, TRUE)
                  => /\ Len(tickets') = Len(tickets)
                     /\ \A i \in 1..Len(tickets) :
                           /\ tickets'[i].id = tickets[i].id
                           /\ tickets'[i].number = tickets[i].number
                           /\ tickets'[i].group_size = tickets[i].group_size
                           /\ tickets[i].id # r.id[1] => tickets'[i] = tickets[i]
        /\ \A p \in Procs :
              /\ ReadsNextNumber(p) => tickets' = tickets
              /\ InsertsRow(p) => SubSeq(tickets', 1, Len(tickets)) = tickets
      ]_vars

\* of two tickets, the status of the first has been set and the second is
\* as it was issued
C15_Witness ==
    /\ Len(tickets) = 2
    /\ tickets[1].status = "called"
    /\ tickets[2].status = "waiting"
    /\ resp.req.path = "/admin/call/update"
    /\ resp.status = 303

\* the rows that are not completed and carry the number
ActiveWithNumber(rows, number) ==
    { i \in 1..Len(rows) :
        rows[i].number = number /\ rows[i].status # "completed" }

\* C16: the wrap does not look for a collision: when the largest number in
\* the store is 999 and a ticket numbered 1 that is not completed is still
\* there, issue (on a store that answers) succeeds and creates a second
\* ticket numbered 1 that is not completed, so two active tickets share a
\* number.
C16_WrapCollision ==
    [][ \A p \in Procs :
          /\ \A r \in WrapRequests :
                (/\ create_ticket(p, r, TRUE)
                 /\ \E i \in 1..Len(tickets) : tickets[i].number = 999
                 /\ \A i \in 1..Len(tickets) : tickets[i].number <= 999
                 /\ ActiveWithNumber(tickets, 1) # {})
                    => locals'[p].number = 1
          /\ (/\ create_ticket_insert(p, TRUE)
              /\ locals[p].number = 1
              /\ ActiveWithNumber(tickets, 1) # {})
                 => /\ resp'.status = 200
                    /\ resp'.tickets[1].number = 1
                    /\ Len(tickets') = Len(tickets) + 1
                    /\ Cardinality(ActiveWithNumber(tickets', 1)) >= 2
      ]_vars

\* the table holds number 999 and two tickets numbered 1, neither completed
C16_Witness ==
    /\ \E i \in 1..Len(tickets) : tickets[i].number = 999
    /\ Cardinality(ActiveWithNumber(tickets, 1)) >= 2
    /\ resp.status = 200

\* C17: after the wrap the numbering goes on upward from 1: the issue that
\* follows the wrapped ticket (number 1), with no reset in between and on a
\* store that answers, assigns number 2.
C17_AfterWrap ==
    [][ \A p \in Procs : \A r \in WrapRequests :
          (/\ create_ticket(p, r, TRUE)
           /\ InFlightCreates = 0
           /\ Len(tickets) >= 999
           /\ tickets[Len(tickets)].number = 1
           /\ \E i \in 1..Len(tickets) : tickets[i].number = 999)
              => locals'[p].number = 2
      ]_vars

\* C18: the origin value the origin check goes by is the Origin header
\* when it is present, and the Referer header only when Origin is absent: a
\* POST with the right credential, an Origin that does not start with the
\* base URL and a Referer that does is rejected (403).
C18_OriginBeforeReferer ==
    (/\ resp.req.path \in AdminPaths
     /\ resp.req.method = "POST"
     /\ PresentedCredentialOK(resp.req.headers)
     /\ resp.req.headers.origin # <<>>
     /\ ~HasPrefix(resp.req.headers.origin[1], base_url))
        => resp.status = 403

\* C19: the credential check comes before the origin check: a POST that
\* fails both checks gets the answer of the credential check (401), and the
\* answer of the origin check (403) goes only to requests whose credential
\* is right.
C19_CredentialFirst ==
    resp.req.path \in AdminPaths
        => /\ (/\ resp.req.method = "POST"
               /\ ~PresentedCredentialOK(resp.req.headers)
               /\ ~OriginAccepted(resp.req.headers))
                  => /\ resp.status = 401
                     /\ resp.body = "Unauthorized: Access Denied"
           /\ resp.body = "Forbidden: CSRF Check Failed (Invalid Origin)"
                  => /\ resp.status = 403
                     /\ PresentedCredentialOK(resp.req.headers)

\* a POST with a wrong credential and the Origin of another site got 401
C19_Witness ==
    /\ resp.status = 401
    /\ resp.req.method = "POST"
    /\ resp.req.headers.authorization = AuthAlteredFirst
    /\ resp.req.headers.origin = UrlEvil
    /\ resp.req.headers.referer = <<>>

\* C20: an issue that does not wrap around (largest number in the store
\* below 999), issues coming one after another, leaves the waiting_count of
\* every ticket already there as it was, and the waiting_count of the new
\* ticket is the number of tickets in status waiting before the issue.
C20_IssueKeepsCounts ==
    [][ \A p \in Procs :
          (InsertsRow(p) /\ \A i \in 1..Len(tickets) : tickets[i].number < 999)
              => /\ \A i \in 1..Len(tickets) :
                       CountWaitingBefore(tickets', tickets[i].number)
                           = CountWaitingBefore(tickets, tickets[i].number)
                 /\ CountWaitingBefore(tickets', tickets'[Len(tickets')].number)
                       = Cardinality({ i \in 1..Len(tickets) :
                                         tickets[i].status = "waiting" })
      ]_vars

====
